---- MODULE Spec2Model ----
(***************************************************************************)
(* Model of huggingface_bedrock_importer/importer.py: the migration        *)
(* pipeline (upload_to_s3, get_bedrock_import_role, create_bedrock_model,  *)
(* import_model_to_bedrock) and the reclaimer (cleanup_aws_resources),     *)
(* run against a model of the three remote services (S3, IAM, Bedrock).    *)
(*                                                                         *)
(* Strings that the code takes apart (model ids, S3 URIs, keys) are        *)
(* sequences of one-character strings, so that sanitising, normalising,    *)
(* splitting and prefix matching are computed as the code computes them.   *)
(***************************************************************************)
EXTENDS Integers, Sequences, FiniteSets, TLC

VARIABLES s3objs, roleExists, rolePolicy, models, jobs, slowness, dests, staged, faults, calls, run

vars == <<s3objs, roleExists, rolePolicy, models, jobs, slowness, dests, staged, faults, calls, run>>

----------------------------------------------------------------------------
(* Bounds of the model *)

\* number of files in the local snapshot of a model
NumFiles == 2
\* number of top-level calls (migrate or reclaim) of one behaviour
MaxCalls == 3
\* number of remote calls of one behaviour that answer with an error
MaxFaults == 2
\* number of status checks an import job of the pipeline answers InProgress
MaxInProgress == 3
\* files a local snapshot holds at most when two snapshots are compared
MaxLocal == 3
\* characters of a model id when the sanitiser is checked on its own
MaxIdLen == 3

(* Program constants *)

IMPORT_MODEL_ROLE_NAME == "MyImportModelRole"
\* while wait_secs < 3600
MaxWaitSecs == 3600
\* sleep_time = 10
SleepTime == 10

\* the callers; the sequential specification runs the first one only
Runs == {1, 2}

----------------------------------------------------------------------------
(* Strings *)

Lower == {"a","b","c","d","e","f","g","h","i","j","k","l","m",
          "n","o","p","q","r","s","t","u","v","w","x","y","z"}
Upper == {"A","B","C","D","E","F","G","H","I","J","K","L","M",
          "N","O","P","Q","R","S","T","U","V","W","X","Y","Z"}
Digit == {"0","1","2","3","4","5","6","7","8","9"}

Slash == <<"/">>
S3Scheme == <<"s","3",":","/","/">>
ModelsDir == <<"m","o","d","e","l","s">>

StartsWith(s, p) == Len(p) <= Len(s) /\ SubSeq(s, 1, Len(p)) = p

\* str.removeprefix
removeprefix(s, p) == IF StartsWith(s, p) THEN SubSeq(s, Len(p) + 1, Len(s)) ELSE s

\* position of the first "/" of s, 0 when there is none
FirstSlash(s) ==
    IF \E i \in 1..Len(s) : s[i] = "/"
    THEN CHOOSE i \in 1..Len(s) : s[i] = "/" /\ \A j \in 1..(i - 1) : s[j] # "/"
    ELSE 0

\* str.split("/"): the components between the slashes, empty ones included
RECURSIVE SplitSlash(_)
SplitSlash(s) ==
    LET i == FirstSlash(s)
    IN  IF i = 0 THEN <<s>>
        ELSE <<SubSeq(s, 1, i - 1)>> \o SplitSlash(SubSeq(s, i + 1, Len(s)))

\* "/".join(comps)
RECURSIVE JoinSlash(_)
JoinSlash(comps) ==
    IF Len(comps) = 0 THEN <<>>
    ELSE IF Len(comps) = 1 THEN comps[1]
    ELSE comps[1] \o Slash \o JoinSlash(Tail(comps))

\* str.split("/", maxsplit=1): a list of one or two strings
SplitMax1(s) ==
    LET i == FirstSlash(s)
    IN  IF i = 0 THEN <<s>>
        ELSE <<SubSeq(s, 1, i - 1), SubSeq(s, i + 1, Len(s))>>

\* posixpath.normpath: the loop over the components
RECURSIVE NormComps(_, _, _)
NormComps(comps, acc, initial) ==
    IF Len(comps) = 0 THEN acc
    ELSE LET c == comps[1]
             rest == Tail(comps)
         IN  IF c = <<>> \/ c = <<".">> THEN NormComps(rest, acc, initial)
             ELSE IF c # <<".", ".">>
                     \/ (initial = 0 /\ Len(acc) = 0)
                     \/ (Len(acc) > 0 /\ acc[Len(acc)] = <<".", ".">>)
                  THEN NormComps(rest, Append(acc, c), initial)
             ELSE IF Len(acc) > 0
                  THEN NormComps(rest, SubSeq(acc, 1, Len(acc) - 1), initial)
             ELSE NormComps(rest, acc, initial)

\* os.path.normpath (POSIX)
normpath(path) ==
    IF path = <<>> THEN <<".">>
    ELSE LET initial == IF ~StartsWith(path, Slash) THEN 0
                        ELSE IF StartsWith(path, <<"/", "/">>)
                                /\ ~StartsWith(path, <<"/", "/", "/">>) THEN 2
                        ELSE 1
             joined == JoinSlash(NormComps(SplitSlash(path), <<>>, initial))
             full == [i \in 1..initial |-> "/"] \o joined
         IN  IF full = <<>> THEN <<".">> ELSE full

s3_uri_to_bucket_and_key(s3_uri) == SplitMax1(normpath(removeprefix(s3_uri, S3Scheme)))

\* sanitize_model_id with the empty string as the replacement
sanitize_model_id_drops(model_id) ==
    SelectSeq(model_id, LAMBDA c : c \in ({"-"} \cup Lower \cup Upper \cup Digit))

\* sanitize_model_id with the slash added to the characters the pattern keeps
sanitize_model_id_keeps_slash(model_id) ==
    [i \in 1..Len(model_id) |->
        IF model_id[i] \in ({"-", "/"} \cup Lower \cup Upper \cup Digit)
        THEN model_id[i] ELSE "-"]

\* re.sub(r'[^-a-zA-Z0-9]', "-", model_id)
sanitize_model_id(model_id) ==
    [i \in 1..Len(model_id) |->
        IF model_id[i] \in ({"-"} \cup Lower \cup Upper \cup Digit)
        THEN model_id[i] ELSE "-"]

----------------------------------------------------------------------------
(* Inputs and remote values *)

\* s3objs: the objects in S3, <<bucket, key>>; roleExists, rolePolicy: the
\* role of the fixed name in IAM and the buckets its inline policy grants;
\* models: the names of the imported models in Bedrock; jobs: the import jobs
\* submitted; slowness: how many status checks the service answers InProgress
\* for one job; dests: the destinations the caller works with; staged: the
\* <<model id, location>> pairs a stage call has returned for and whose
\* objects have not been deleted since; faults: the
\* remote calls that have answered with an error; calls: the top-level calls
\* made; run: the position and the locals of each caller

\* model ids a caller passes: "a/b" (needs sanitising) and "g" (does not)
ModelIds == { <<"a", "/", "b">>, <<"g">> }

\* destinations a caller passes: bucket form "b" and bucket+prefix form "s3://b/p"
Dests == { <<"b">>, S3Scheme \o <<"b", "/", "p">> }

FileNames == <<"w", "x", "y", "z">>

\* relative paths of the files of the local snapshot, in os.walk order
LocalFiles == [i \in 1..NumFiles |-> <<FileNames[i]>>]

\* the model id and the destination of the end-to-end scenario
FooBar1 == <<"f", "o", "o", "/", "b", "a", "r", "-", "1">>
MyBucket == <<"m", "y", "-", "b", "u", "c", "k", "e", "t">>

\* download_model: the files of the snapshot the hub holds for a model id;
\* the model of the end-to-end scenario has three
Snapshot(model_id) ==
    IF model_id = FooBar1 THEN << <<"w">>, <<"x">>, <<"y">> >> ELSE LocalFiles

RoleArn == <<"arn:role/", IMPORT_MODEL_ROLE_NAME>>
ModelArn(name) == <<"arn:imported-model/">> \o name

NoResponse == [status |-> "none", failureMessage |-> FALSE, importedModelArn |-> FALSE]

\* payloads get_model_import_job can answer with
JobResponses ==
    { [status |-> "InProgress", failureMessage |-> FALSE, importedModelArn |-> a] : a \in BOOLEAN }
    \cup { [status |-> "Completed", failureMessage |-> FALSE, importedModelArn |-> TRUE] }
    \cup { [status |-> "Failed", failureMessage |-> f, importedModelArn |-> a] :
              f \in BOOLEAN, a \in BOOLEAN }

\* the locals of one call, before the call has started; the last lines count
\* the remote calls the call has issued
IdleRun ==
    [ pc |-> "idle", op |-> "none",
      model_id |-> <<>>, s3_arg |-> <<>>, model_name |-> <<>>, local_files |-> <<>>,
      upload_s3_bucket |-> <<>>, upload_s3_key |-> <<>>, upload_location |-> <<>>,
      next_file |-> 1, files_to_upload |-> <<>>, probe_denied |-> FALSE, restage |-> FALSE,
      s3_uri |-> <<>>, role_bucket |-> <<>>, role_arn |-> <<>>,
      job_arn |-> 0, wait_secs |-> 0, job_response |-> NoResponse,
      result |-> <<>>, err |-> "none", failed_in |-> "none",
      iam_calls |-> 0, lookups |-> 0, lookup |-> "none", existed |-> FALSE, submissions |-> 0,
      checks |-> 0, sleeps |-> 0, in_progress |-> 0,
      reclaim_log |-> <<>> ]

\* the S3 object the Stager reads and writes for a local file
ObjectOf(st, file) == <<st.upload_s3_bucket, st.upload_s3_key \o Slash \o file>>

\* NextStage with the exception of a stage caught and the pipeline going on
NextStageSwallow(stage, raised) ==
    CASE stage = "stage" -> "get_role"
      [] stage = "provision" -> "check_existing"
      [] OTHER -> "done"

\* import_model_to_bedrock: where the pipeline goes when a stage has ended.
\* The stages are called one after the other with no try/except around them,
\* so an exception of a stage ends the call.
NextStage(stage, raised) ==
    IF raised THEN "failed"
    ELSE CASE stage = "stage" -> "get_role"
           [] stage = "provision" -> "check_existing"
           [] OTHER -> "done"

Fail(st, stage, e) == [st EXCEPT !.pc = NextStage(stage, TRUE), !.err = e, !.failed_in = stage]

CanFault == faults < MaxFaults

----------------------------------------------------------------------------
(* State after construction: nothing staged, no role, no model, no job; the *)
(* caller works with one destination, of either form                        *)

Init ==
    /\ s3objs = {}
    /\ roleExists = FALSE
    /\ rolePolicy = {}
    /\ models = {}
    /\ jobs = <<>>
    /\ slowness = MaxInProgress
    /\ \E dest \in Dests : dests = {dest}
    /\ staged = {}
    /\ faults = 0
    /\ calls = 0
    /\ run = [r \in Runs |-> IdleRun]

----------------------------------------------------------------------------
(* import_model_to_bedrock, steps 1 and 2: download, sanitise, start staging *)

Returned(st) == st.pc \in {"idle", "done", "failed"}

\* import_model_to_bedrock up to the first probe of upload_to_s3
CallMigrate(r, id, dest) ==
    /\ Returned(run[r])
    /\ calls < MaxCalls
    /\ calls' = calls + 1
    /\ LET name == sanitize_model_id(id)
           bk == s3_uri_to_bucket_and_key(dest \o Slash \o ModelsDir \o Slash \o name)
           base == [IdleRun EXCEPT !.op = "migrate", !.model_id = id, !.s3_arg = dest,
                                   !.model_name = name, !.local_files = Snapshot(id)]
       IN  IF Len(bk) # 2
           THEN run' = [run EXCEPT ![r] = Fail(base, "stage", "ValueError")]
           ELSE LET loc == S3Scheme \o bk[1] \o Slash \o bk[2]
                IN run' = [run EXCEPT ![r] =
                       [base EXCEPT !.pc = IF Len(Snapshot(id)) = 0 THEN "stage_upload"
                                           ELSE "stage_probe",
                                    !.upload_s3_bucket = bk[1],
                                    !.upload_s3_key = bk[2],
                                    !.upload_location = loc,
                                    !.restage = (<<id, loc>> \in staged)]]
    /\ UNCHANGED <<s3objs, roleExists, rolePolicy, models, jobs, staged, faults, slowness, dests>>

\* ProbeVerdict with the two answers of a successful probe exchanged
ProbeVerdictExchanged(code) ==
    CASE code = "200" -> "upload"
      [] code = "404" -> "skip"
      [] code = "403" -> "skip"
      [] OTHER -> "raise"

\* what upload_to_s3 does with the answer of head_object for one file:
\* "200" found, "404" not found, "403" another ClientError, "conn" and
\* "invalid" exceptions that are not a ClientError
ProbeVerdict(code) ==
    CASE code = "200" -> "skip"
      [] code = "404" -> "upload"
      [] code = "403" -> "skip"
      [] OTHER -> "raise"

\* the S3 client checks the Bucket parameter of a call before it sends the
\* request, and raises ParamValidationError (not a ClientError) for a name
\* that is empty or holds a character outside letters, digits, ".", "-", "_"
ValidBucketName(bucket) ==
    /\ Len(bucket) \in 1..255
    /\ \A i \in 1..Len(bucket) : bucket[i] \in Lower \cup Upper \cup Digit \cup {".", "-", "_"}

\* one iteration of the os.walk loop of upload_to_s3: probe the next file
Probe(r) ==
    LET st == run[r]
        file == st.local_files[st.next_file]
        present == ObjectOf(st, file) \in s3objs
    IN  /\ st.pc = "stage_probe"
        /\ \E code \in {"200", "404", "403", "conn", "invalid"} :
              /\ code = "invalid" <=> ~ValidBucketName(st.upload_s3_bucket)
              /\ code = "200" => present
              /\ code = "404" => ~present
              /\ code \in {"403", "conn"} => CanFault
              /\ faults' = IF code \in {"403", "conn"} THEN faults + 1 ELSE faults
              /\ LET v == ProbeVerdict(code)
                     seen == [st EXCEPT !.probe_denied = @ \/ (code = "403"),
                                        !.next_file = @ + 1]
                 IN  run' = [run EXCEPT ![r] =
                        IF v = "raise"
                        THEN Fail(seen, "stage", IF code = "invalid" THEN "ParamValidationError"
                                                 ELSE "ConnectionError")
                        ELSE [seen EXCEPT
                                !.files_to_upload = IF v = "upload" THEN Append(@, file) ELSE @,
                                !.pc = IF st.next_file = Len(st.local_files)
                                       THEN "stage_upload" ELSE "stage_probe"]]
        /\ UNCHANGED <<s3objs, roleExists, rolePolicy, models, jobs, staged, calls, slowness, dests>>

\* fast_upload: whether a failed transfer reaches the caller as an exception.
\* The futures s3t.upload returns are dropped and s3t.shutdown() waits for
\* the transfers without re-raising their errors.
fast_upload_raises(failed) == FALSE

\* upload_to_s3 after the walk: transfer the delta (fast_upload) or report
\* that there is nothing to do, then return the location
StageTransfer(r) ==
    LET st == run[r]
        delta == { st.files_to_upload[i] : i \in 1..Len(st.files_to_upload) }
    IN  /\ st.pc = "stage_upload"
        /\ \E failed \in SUBSET delta :
              /\ faults + Cardinality(failed) <= MaxFaults
              /\ faults' = faults + Cardinality(failed)
              /\ s3objs' = s3objs \cup { ObjectOf(st, f) : f \in delta \ failed }
              /\ IF fast_upload_raises(failed)
                 THEN /\ run' = [run EXCEPT ![r] = Fail(st, "stage", "TransferError")]
                      /\ staged' = staged
                 ELSE \* return upload_location: the locals of upload_to_s3 are gone
                      /\ run' = [run EXCEPT ![r] =
                            [st EXCEPT !.upload_s3_bucket = <<>>, !.upload_s3_key = <<>>,
                                       !.upload_location = <<>>,
                                       !.next_file = 1, !.files_to_upload = <<>>,
                                       !.local_files = <<>>,
                                       !.probe_denied = FALSE, !.restage = FALSE,
                                       !.s3_uri = st.upload_location,
                                       !.role_bucket = s3_uri_to_bucket_and_key(st.upload_location)[1],
                                       !.pc = NextStage("stage", FALSE)]]
                      /\ staged' = staged \cup {<<st.model_id, st.upload_location>>}
        /\ UNCHANGED <<roleExists, rolePolicy, models, jobs, calls, slowness, dests>>

----------------------------------------------------------------------------
(* get_bedrock_import_role *)

\* RoleVerdict with the early return of the existing role left out
RoleVerdictAlwaysCreate(answer) ==
    CASE answer \in {"found", "NoSuchEntity"} -> "create"
      [] OTHER -> "raise"

\* what get_bedrock_import_role does with the answer of iam.get_role
RoleVerdict(answer) ==
    CASE answer = "found" -> "return"
      [] answer = "NoSuchEntity" -> "create"
      [] OTHER -> "raise"

\* iam.get_role: return the Arn of the role, or go on to create it
GetRole(r) ==
    LET st == [run[r] EXCEPT !.iam_calls = @ + 1]
    IN  /\ run[r].pc = "get_role"
        /\ \/ /\ roleExists
              /\ run' = [run EXCEPT ![r] =
                    IF RoleVerdict("found") = "return"
                    THEN [st EXCEPT !.role_arn = RoleArn, !.pc = NextStage("provision", FALSE)]
                    ELSE [st EXCEPT !.pc = "create_role"]]
              /\ faults' = faults
           \/ /\ ~roleExists
              /\ run' = [run EXCEPT ![r] =
                    IF RoleVerdict("NoSuchEntity") = "create"
                    THEN [st EXCEPT !.pc = "create_role"]
                    ELSE Fail(st, "provision", "NoSuchEntity")]
              /\ faults' = faults
           \/ /\ CanFault
              /\ run' = [run EXCEPT ![r] = Fail(st, "provision", "ClientError")]
              /\ faults' = faults + 1
        /\ UNCHANGED <<s3objs, roleExists, rolePolicy, models, jobs, staged, calls, slowness, dests>>

\* iam.create_role
CreateRole(r) ==
    LET st == [run[r] EXCEPT !.iam_calls = @ + 1]
    IN  /\ run[r].pc = "create_role"
        /\ \/ /\ ~roleExists
              /\ roleExists' = TRUE
              /\ run' = [run EXCEPT ![r] = [st EXCEPT !.pc = "put_policy"]]
              /\ faults' = faults
           \/ /\ roleExists
              /\ roleExists' = roleExists
              /\ run' = [run EXCEPT ![r] = Fail(st, "provision", "EntityAlreadyExists")]
              /\ faults' = faults
           \/ /\ CanFault
              /\ roleExists' = roleExists
              /\ run' = [run EXCEPT ![r] = Fail(st, "provision", "ClientError")]
              /\ faults' = faults + 1
        /\ UNCHANGED <<s3objs, rolePolicy, models, jobs, staged, calls, slowness, dests>>

\* iam.put_role_policy, then return the Arn of the new role
PutPolicy(r) ==
    LET st == [run[r] EXCEPT !.iam_calls = @ + 1]
    IN  /\ run[r].pc = "put_policy"
        /\ \/ /\ rolePolicy' = {st.role_bucket}
              /\ run' = [run EXCEPT ![r] =
                    [st EXCEPT !.role_arn = RoleArn, !.pc = NextStage("provision", FALSE)]]
              /\ faults' = faults
           \/ /\ CanFault
              /\ rolePolicy' = rolePolicy
              /\ run' = [run EXCEPT ![r] = Fail(st, "provision", "ClientError")]
              /\ faults' = faults + 1
        /\ UNCHANGED <<s3objs, roleExists, models, jobs, staged, calls, slowness, dests>>

----------------------------------------------------------------------------
(* create_bedrock_model *)

\* LookupVerdict with ResourceNotFoundException alone in the except clause
LookupVerdictClientErrorRaises(answer) ==
    CASE answer = "found" -> "return"
      [] answer = "ResourceNotFound" -> "continue"
      [] OTHER -> "raise"

\* LookupVerdict with ResourceNotFoundException missing from the except clause
LookupVerdictNotFoundRaises(answer) ==
    CASE answer = "found" -> "return"
      [] answer = "ClientError" -> "continue"
      [] OTHER -> "raise"

\* what create_bedrock_model does with the answer of get_imported_model:
\* "found", "ResourceNotFound", "ClientError" (any other client error),
\* "conn" (an exception that is not a ClientError)
LookupVerdict(answer) ==
    CASE answer = "found" -> "return"
      [] answer \in {"ResourceNotFound", "ClientError"} -> "continue"
      [] OTHER -> "raise"

\* bedrock.get_imported_model: the check for an existing model
CheckExisting(r) ==
    LET st0 == [run[r] EXCEPT !.lookups = @ + 1,
                              !.existed = (run[r].model_name \in models)]
    IN  /\ run[r].pc = "check_existing"
        /\ \E answer \in {"found", "ResourceNotFound", "ClientError", "conn"} :
              /\ answer = "found" => st0.existed
              /\ answer = "ResourceNotFound" => ~st0.existed
              /\ answer \in {"ClientError", "conn"} => CanFault
              /\ faults' = IF answer \in {"ClientError", "conn"} THEN faults + 1 ELSE faults
              /\ LET v == LookupVerdict(answer)
                     st == [st0 EXCEPT !.lookup = answer]
                 IN  run' = [run EXCEPT ![r] =
                        CASE v = "return" ->
                                [st EXCEPT !.result = ModelArn(st.model_name),
                                           !.pc = NextStage("import", FALSE)]
                          [] v = "continue" -> [st EXCEPT !.pc = "submit"]
                          [] OTHER -> Fail(st, "import", "ConnectionError")]
        /\ UNCHANGED <<s3objs, roleExists, rolePolicy, models, jobs, staged, calls, slowness, dests>>

\* bedrock.create_model_import_job
Submit(r) ==
    LET st == [run[r] EXCEPT !.submissions = @ + 1]
    IN  /\ run[r].pc = "submit"
        /\ \/ /\ jobs' = Append(jobs, [importedModelName |-> st.model_name,
                                       roleArn |-> st.role_arn,
                                       s3Uri |-> st.s3_uri,
                                       by |-> r])
              /\ run' = [run EXCEPT ![r] =
                    [st EXCEPT !.job_arn = Len(jobs) + 1, !.wait_secs = 0, !.pc = "polling"]]
              /\ faults' = faults
           \/ /\ CanFault
              /\ jobs' = jobs
              /\ run' = [run EXCEPT ![r] = Fail(st, "import", "ClientError")]
              /\ faults' = faults + 1
        /\ UNCHANGED <<s3objs, roleExists, rolePolicy, models, staged, calls, slowness, dests>>

\* LoopContinues with the ceiling included in the range of the loop
LoopContinuesInclusive(wait_secs) == wait_secs <= MaxWaitSecs

\* while wait_secs < 3600
LoopContinues(wait_secs) == wait_secs < MaxWaitSecs

\* AfterCheck leaving the loop on a failed job only
AfterCheckFailedOnly(resp) ==
    IF resp.status = "Failed"
    THEN IF resp.failureMessage THEN "raise" ELSE "break"
    ELSE "continue"

\* the body of the loop after get_model_import_job has answered
AfterCheck(resp) ==
    IF resp.status # "InProgress"
    THEN IF resp.failureMessage THEN "raise" ELSE "break"
    ELSE "continue"

\* the statements after the loop: job_response["importedModelArn"]
AfterLoop(resp) == IF resp.importedModelArn THEN "return" ELSE "KeyError"

\* one iteration of the polling loop: sleep, count, check the job; when the
\* loop ends, the statements after it
Poll(r) ==
    LET st == [run[r] EXCEPT !.sleeps = @ + 1,
                             !.wait_secs = @ + SleepTime,
                             !.checks = @ + 1]
    IN  /\ run[r].pc = "polling"
        /\ LoopContinues(run[r].wait_secs)
        /\ \/ /\ CanFault
              /\ faults' = faults + 1
              /\ models' = models
              /\ run' = [run EXCEPT ![r] = Fail(st, "import", "ClientError")]
           \/ \E resp \in JobResponses :
                 LET seen == [st EXCEPT !.job_response = resp,
                                        !.in_progress = IF resp.status = "InProgress"
                                                        THEN @ + 1 ELSE @]
                     v == AfterCheck(resp)
                 IN  /\ resp.status = "InProgress" => st.in_progress < slowness
                     /\ faults' = faults
                     /\ models' = IF resp.status = "Completed"
                                  THEN models \cup {jobs[st.job_arn].importedModelName}
                                  ELSE models
                     /\ run' = [run EXCEPT ![r] =
                           IF v = "raise" THEN Fail(seen, "import", "ImportFailed")
                           ELSE IF v = "continue" /\ LoopContinues(seen.wait_secs)
                                THEN seen
                           ELSE IF AfterLoop(resp) = "return"
                                THEN [seen EXCEPT
                                        !.result = ModelArn(jobs[st.job_arn].importedModelName),
                                        !.pc = NextStage("import", FALSE)]
                           ELSE Fail(seen, "import", "KeyError")]
        /\ UNCHANGED <<s3objs, roleExists, rolePolicy, jobs, staged, calls, slowness, dests>>

----------------------------------------------------------------------------
(* cleanup_aws_resources *)

\* ReclaimNext with one try/except around the three actions
ReclaimNextAbort(action, ok) ==
    IF ~ok THEN "done"
    ELSE CASE action = "role" -> "reclaim_model"
           [] action = "model" -> "reclaim_objects"
           [] OTHER -> "done"

\* cleanup_aws_resources: each teardown action sits in its own try/except
\* Exception, so the next action follows whatever the outcome of this one
ReclaimNext(action, ok) ==
    CASE action = "role" -> "reclaim_model"
      [] action = "model" -> "reclaim_objects"
      [] OTHER -> "done"

\* cleanup_aws_resources up to the first teardown action
CallReclaim(r, dest, id) ==
    /\ Returned(run[r])
    /\ calls < MaxCalls
    /\ calls' = calls + 1
    /\ run' = [run EXCEPT ![r] =
          [IdleRun EXCEPT !.op = "reclaim", !.model_id = id, !.s3_arg = dest,
                          !.pc = "reclaim_role"]]
    /\ UNCHANGED <<s3objs, roleExists, rolePolicy, models, jobs, staged, faults, slowness, dests>>

\* first action: iam.delete_role_policy, then iam.delete_role
ReclaimRole(r) ==
    LET st == run[r]
        Go(ok, n) == run' = [run EXCEPT ![r] =
                        [st EXCEPT !.iam_calls = @ + n,
                                   !.reclaim_log = Append(@, [action |-> "role", ok |-> ok]),
                                   !.pc = ReclaimNext("role", ok)]]
    IN  /\ run[r].pc = "reclaim_role"
        /\ \/ \* both calls succeed
              /\ roleExists /\ rolePolicy # {}
              /\ roleExists' = FALSE /\ rolePolicy' = {}
              /\ faults' = faults
              /\ Go(TRUE, 2)
           \/ \* delete_role_policy answers NoSuchEntity
              /\ ~roleExists \/ rolePolicy = {}
              /\ UNCHANGED <<roleExists, rolePolicy, faults>>
              /\ Go(FALSE, 1)
           \/ \* delete_role_policy fails
              /\ roleExists /\ rolePolicy # {} /\ CanFault
              /\ UNCHANGED <<roleExists, rolePolicy>>
              /\ faults' = faults + 1
              /\ Go(FALSE, 1)
           \/ \* delete_role fails after the policy is gone
              /\ roleExists /\ rolePolicy # {} /\ CanFault
              /\ roleExists' = roleExists /\ rolePolicy' = {}
              /\ faults' = faults + 1
              /\ Go(FALSE, 2)
        /\ UNCHANGED <<s3objs, models, jobs, staged, calls, slowness, dests>>

\* second action: bedrock.delete_custom_model(modelIdentifier=model_id),
\* called with the model id as the caller gave it
ReclaimModel(r) ==
    LET st == run[r]
        Go(ok) == run' = [run EXCEPT ![r] =
                     [st EXCEPT !.reclaim_log = Append(@, [action |-> "model", ok |-> ok]),
                                !.pc = ReclaimNext("model", ok)]]
    IN  /\ run[r].pc = "reclaim_model"
        /\ \/ /\ st.model_id \in models
              /\ models' = models \ {st.model_id}
              /\ faults' = faults
              /\ Go(TRUE)
           \/ /\ st.model_id \notin models
              /\ UNCHANGED <<models, faults>>
              /\ Go(FALSE)
           \/ /\ st.model_id \in models /\ CanFault
              /\ models' = models
              /\ faults' = faults + 1
              /\ Go(FALSE)
        /\ UNCHANGED <<s3objs, roleExists, rolePolicy, jobs, staged, calls, slowness, dests>>

\* the key prefix cleanup_aws_resources deletes under:
\* os.path.normpath(f"{prefix}/models/{model_id}")
ReclaimPrefix(prefix, model_id) ==
    normpath(prefix \o Slash \o ModelsDir \o Slash \o model_id)

\* objects.filter(Prefix=prefix): the objects of the bucket whose key starts
\* with the prefix
UnderPrefix(bucket, prefix) ==
    { o \in s3objs : o[1] = bucket /\ StartsWith(o[2], prefix) }

ObjectUri(o) == S3Scheme \o o[1] \o Slash \o o[2]

\* third action: split the uri, delete the objects under the prefix
ReclaimObjects(r) ==
    LET st == run[r]
        bk == s3_uri_to_bucket_and_key(st.s3_arg)
        Go(ok) == run' = [run EXCEPT ![r] =
                     [st EXCEPT !.reclaim_log = Append(@, [action |-> "objects", ok |-> ok]),
                                !.pc = ReclaimNext("objects", ok)]]
    IN  /\ run[r].pc = "reclaim_objects"
        /\ IF Len(bk) # 2
           THEN \* bucket, prefix = [...] raises ValueError inside the try
                /\ UNCHANGED <<s3objs, staged, faults>>
                /\ Go(FALSE)
           ELSE \/ LET gone == UnderPrefix(bk[1], ReclaimPrefix(bk[2], st.model_id))
                   IN  /\ s3objs' = s3objs \ gone
                       /\ staged' = { e \in staged :
                                        ~\E o \in gone : StartsWith(ObjectUri(o), e[2] \o Slash) }
                       /\ faults' = faults
                       /\ Go(TRUE)
                \/ /\ CanFault
                   /\ UNCHANGED <<s3objs, staged>>
                   /\ faults' = faults + 1
                   /\ Go(FALSE)
        /\ UNCHANGED <<roleExists, rolePolicy, models, jobs, calls, slowness, dests>>

----------------------------------------------------------------------------
(* The sequential specification: one caller, one call after the other *)

Step(r) ==
    \/ \E id \in ModelIds, dest \in dests : CallMigrate(r, id, dest)
    \/ Probe(r)
    \/ StageTransfer(r)
    \/ GetRole(r)
    \/ CreateRole(r)
    \/ PutPolicy(r)
    \/ CheckExisting(r)
    \/ Submit(r)
    \/ Poll(r)
    \/ \E id \in ModelIds, dest \in dests : CallReclaim(r, dest, id)
    \/ ReclaimRole(r)
    \/ ReclaimModel(r)
    \/ ReclaimObjects(r)

Next == Step(1)

Spec == Init /\ [][Next]_vars

----------------------------------------------------------------------------
(* The controller on its own: create_bedrock_model entered with the location *)
(* and the role of a finished staging and provisioning, against a job that   *)
(* may stay InProgress up to the ceiling of the loop                          *)

\* the location upload_to_s3 returns for a destination and a model id
LocationOf(dest, id) ==
    LET bk == s3_uri_to_bucket_and_key(dest \o Slash \o ModelsDir \o Slash \o sanitize_model_id(id))
    IN  S3Scheme \o bk[1] \o Slash \o bk[2]

InitPoll ==
    \E id \in ModelIds, dest \in Dests, existing \in BOOLEAN :
       LET name == sanitize_model_id(id)
           loc == LocationOf(dest, id)
           bucket == s3_uri_to_bucket_and_key(loc)[1]
           key == s3_uri_to_bucket_and_key(loc)[2]
       IN  /\ s3objs = { <<bucket, key \o Slash \o LocalFiles[i]>> : i \in 1..NumFiles }
           /\ roleExists = TRUE
           /\ rolePolicy = {bucket}
           /\ models = IF existing THEN {name} ELSE {}
           /\ jobs = <<>>
           /\ slowness = MaxWaitSecs \div SleepTime
           /\ dests = {dest}
           /\ staged = {<<id, loc>>}
           /\ faults = 0
           /\ calls = 1
           /\ run = [r \in Runs |->
                 IF r = 1
                 THEN [IdleRun EXCEPT !.op = "migrate", !.model_id = id, !.s3_arg = dest,
                                      !.model_name = name, !.s3_uri = loc,
                                      !.role_bucket = bucket, !.role_arn = RoleArn,
                                      !.iam_calls = 1, !.pc = "check_existing"]
                 ELSE IdleRun]

NextPoll == CheckExisting(1) \/ Submit(1) \/ Poll(1)

SpecPoll == InitPoll /\ [][NextPoll]_vars

----------------------------------------------------------------------------
(* Claims *)

\* the number of status checks the loop can make: 3600 / 10
MaxChecks == MaxWaitSecs \div SleepTime

\* every status check up to the ceiling has answered InProgress
TimedOut(st) == st.checks = MaxChecks /\ st.in_progress = MaxChecks

\* C1: when every status check up to the ceiling answers in-progress, the
\* call ends with a fatal timeout error, an error other than the one raised
\* for a reported job failure, and never with a returned model handle.
C1_TimeoutIsFatal ==
    \A r \in Runs :
        TimedOut(run[r]) =>
            /\ run[r].pc = "failed"
            /\ run[r].err = "Timeout"
            /\ run[r].err # "ImportFailed"
            /\ run[r].result = <<>>

\* C2: a call that has polled a job returns a model handle only if the last
\* status it observed is Completed.
C2_HandleOnlyIfComplete ==
    \A r \in Runs :
        (run[r].op = "migrate" /\ run[r].pc = "done" /\ run[r].checks > 0)
            => run[r].job_response.status = "Completed"

\* C3: if the destination model exists when the controller looks it up, the
\* call goes on to no job submission and no status check, and when it has
\* ended it has returned the handle of that model.
C3_ExistingModelShortCircuits ==
    \A r \in Runs :
        (run[r].lookups > 0 /\ run[r].existed /\ run[r].err = "none") =>
            /\ run[r].pc = "done"
            /\ run[r].result = ModelArn(run[r].model_name)
            /\ run[r].submissions = 0
            /\ run[r].checks = 0

\* C4: k InProgress answers followed by Completed, with k+1 at most 360, make
\* exactly k+1 status checks, each after one sleep of 10, and the call
\* returns the handle of the model the job imported.
C4_ChecksUntilComplete ==
    \A r \in Runs :
        /\ run[r].sleeps = run[r].checks
        /\ run[r].wait_secs = SleepTime * run[r].checks
        /\ run[r].job_response.status = "Completed" =>
              /\ run[r].pc = "done"
              /\ run[r].checks = run[r].in_progress + 1
              /\ run[r].checks <= MaxChecks
              /\ run[r].result = ModelArn(run[r].model_name)

\* C4 witness: the sequence InProgress, InProgress, Completed has been
\* answered with three checks and a returned handle
C4_Witness ==
    \E r \in Runs :
        /\ run[r].pc = "done"
        /\ run[r].job_response.status = "Completed"
        /\ run[r].in_progress = 2
        /\ run[r].checks = 3

\* C5: a stage call for a model id and location for which an earlier stage
\* call has returned, with the local files and the destination unchanged
\* since, computes an empty delta.
C5_RestageIsNoOp ==
    \A r \in Runs :
        (run[r].restage /\ run[r].pc = "stage_upload") => run[r].files_to_upload = <<>>

\* C6: a probe that fails with an error other than not-found ends the stage
\* call in a fatal error.
C6_ProbeErrorIsFatal ==
    \A r \in Runs :
        run[r].probe_denied => (run[r].pc = "failed" /\ run[r].failed_in = "stage")

\* C7: the stage call returns only when every file of the delta is in the
\* destination.
C7_TransferFailureIsFatal ==
    [][\A r \in Runs :
          (run[r].pc = "stage_upload" /\ run'[r].pc # "failed") =>
              \A i \in 1..Len(run[r].files_to_upload) :
                  ObjectOf(run[r], run[r].files_to_upload[i]) \in s3objs']_vars

\* C8: a reclaim call attempts the three teardown actions once each, in
\* order, whatever their outcomes, and never ends in an error.
C8_ReclaimAttemptsAll ==
    \A r \in Runs :
        run[r].op = "reclaim" =>
            LET log == run[r].reclaim_log
                order == <<"role", "model", "objects">>
            IN  /\ run[r].pc # "failed"
                /\ run[r].err = "none"
                /\ Len(log) <= 3
                /\ \A i \in 1..Len(log) : log[i].action = order[i]
                /\ run[r].pc = "reclaim_role" => Len(log) = 0
                /\ run[r].pc = "reclaim_model" => Len(log) = 1
                /\ run[r].pc = "reclaim_objects" => Len(log) = 2
                /\ run[r].pc = "done" => Len(log) = 3

\* C8 witness: the role was absent, and model deletion and object deletion
\* were attempted after that and succeeded
C8_Witness ==
    \E r \in Runs :
        /\ run[r].op = "reclaim"
        /\ run[r].pc = "done"
        /\ ~roleExists
        /\ run[r].iam_calls = 1
        /\ run[r].reclaim_log = << [action |-> "role", ok |-> FALSE],
                                   [action |-> "model", ok |-> TRUE],
                                   [action |-> "objects", ok |-> TRUE] >>

\* the objects under the working root the Stager writes to for a destination
\* and a model id
StagedUnder(dest, id) ==
    LET bk == s3_uri_to_bucket_and_key(LocationOf(dest, id))
    IN  { o \in s3objs : o[1] = bk[1] /\ StartsWith(o[2], bk[2] \o Slash) }

\* C9: when reclaim(destination, identifier) has ended and no remote call
\* has failed, no object is left under the working root of that destination
\* and identifier.
C9_ReclaimReversesStaging ==
    \A r \in Runs :
        (run[r].op = "reclaim" /\ run[r].pc = "done" /\ faults = 0)
            => StagedUnder(run[r].s3_arg, run[r].model_id) = {}

\* C10: in a migrate call the Provisioner makes remote calls only after the
\* stage call has returned, the Controller only after a role handle has been
\* obtained as well; the job submitted names the location the Stager
\* returned, the handle the Provisioner returned and the Canonical Name; and
\* after a fatal error of a stage no later stage has made a remote call.
C10_StagesInOrder ==
    \A r \in Runs :
        LET st == run[r]
            controller == st.lookups + st.submissions + st.checks
        IN  st.op = "migrate" =>
              /\ st.iam_calls > 0 => st.s3_uri = LocationOf(st.s3_arg, st.model_id)
              /\ controller > 0 =>
                    /\ st.s3_uri = LocationOf(st.s3_arg, st.model_id)
                    /\ st.role_arn = RoleArn
              /\ st.job_arn > 0 =>
                    /\ jobs[st.job_arn].s3Uri = LocationOf(st.s3_arg, st.model_id)
                    /\ jobs[st.job_arn].roleArn = RoleArn
                    /\ jobs[st.job_arn].importedModelName = sanitize_model_id(st.model_id)
              /\ st.failed_in = "stage" => (st.iam_calls = 0 /\ controller = 0)
              /\ st.failed_in = "provision" => controller = 0

\* C10 witness: a migrate call that created the role, submitted a job and
\* returned
C10_Witness ==
    \E r \in Runs :
        /\ run[r].op = "migrate"
        /\ run[r].pc = "done"
        /\ run[r].iam_calls = 3
        /\ run[r].job_arn > 0


----------------------------------------------------------------------------
(* The end-to-end scenario: import_model_to_bedrock("foo/bar-1", "my-bucket") *)
(* against an account that holds nothing                                      *)

InitE2E ==
    /\ s3objs = {}
    /\ roleExists = FALSE
    /\ rolePolicy = {}
    /\ models = {}
    /\ jobs = <<>>
    /\ slowness = MaxInProgress
    /\ dests = {MyBucket}
    /\ staged = {}
    /\ faults = 0
    /\ calls = 0
    /\ run = [r \in Runs |-> IdleRun]

NextE2E ==
    \/ \E dest \in dests : CallMigrate(1, FooBar1, dest)
    \/ Probe(1)
    \/ StageTransfer(1)
    \/ GetRole(1)
    \/ CreateRole(1)
    \/ PutPolicy(1)
    \/ CheckExisting(1)
    \/ Submit(1)
    \/ Poll(1)

SpecE2E == InitE2E /\ [][NextE2E]_vars

FooBar1Name == <<"f", "o", "o", "-", "b", "a", "r", "-", "1">>
FooBar1Objects ==
    { <<MyBucket, <<"m", "o", "d", "e", "l", "s", "/">> \o FooBar1Name \o <<"/", f>> >> :
         f \in {"w", "x", "y"} }

\* C11: the first call for foo/bar-1 and my-bucket, with three local files,
\* nothing staged, no role and no model, and no remote call failing, uploads
\* exactly the three files under my-bucket/models/foo-bar-1/, creates the
\* role MyImportModelRole for my-bucket, submits exactly one job with the
\* model name foo-bar-1, fails only if that job fails, and when the job
\* completes returns the handle of the model foo-bar-1.
C11_EndToEnd ==
    LET st == run[1]
    IN  (calls = 1 /\ faults = 0) =>
           /\ st.model_name = FooBar1Name
           /\ st.pc = "failed" =>
                 /\ st.failed_in = "import"
                 /\ st.job_response.status = "Failed"
           /\ st.pc \in {"stage_probe", "stage_upload"} => s3objs = {}
           /\ st.pc \notin {"stage_probe", "stage_upload"} => s3objs = FooBar1Objects
           /\ st.pc \in {"check_existing", "submit", "polling", "done", "failed"} =>
                 /\ roleExists
                 /\ rolePolicy = {MyBucket}
                 /\ st.role_arn = <<"arn:role/", "MyImportModelRole">>
           /\ st.pc \in {"get_role", "create_role", "put_policy", "check_existing", "submit"} =>
                 jobs = <<>>
           /\ st.pc \in {"polling", "done", "failed"} =>
                 /\ Len(jobs) = 1
                 /\ st.submissions = 1
                 /\ jobs[1].importedModelName = FooBar1Name
                 /\ jobs[1].s3Uri = S3Scheme \o MyBucket \o <<"/", "m", "o", "d", "e", "l", "s", "/">>
                                       \o FooBar1Name
                 /\ jobs[1].roleArn = st.role_arn
           /\ (st.pc = "done" /\ st.job_response.status = "Completed") =>
                 /\ st.result = ModelArn(FooBar1Name)
                 /\ FooBar1Name \in models
                 /\ st.checks = st.in_progress + 1

C11_Witness ==
    /\ calls = 1
    /\ faults = 0
    /\ run[1].pc = "done"
    /\ run[1].job_response.status = "Completed"
    /\ run[1].checks >= 2
    /\ run[1].result = ModelArn(FooBar1Name)
    /\ s3objs = FooBar1Objects


----------------------------------------------------------------------------
(* The walk of upload_to_s3 on its own: two callers probe the same working  *)
(* root, one with a snapshot that holds a part of the files of the other,   *)
(* against a remote state that does not change and probes that all answer   *)

\* the files of a set of indices, in os.walk order
FilesOf(picked) ==
    SelectSeq([i \in 1..MaxLocal |-> <<FileNames[i]>>],
              LAMBDA f : \E i \in picked : f = <<FileNames[i]>>)

\* upload_to_s3 entered: the locals before the first probe
Walking(id, dest, files) ==
    LET bk == s3_uri_to_bucket_and_key(dest \o Slash \o ModelsDir \o Slash \o sanitize_model_id(id))
    IN  [IdleRun EXCEPT !.op = "migrate", !.model_id = id, !.s3_arg = dest,
                        !.model_name = sanitize_model_id(id),
                        !.local_files = files,
                        !.upload_s3_bucket = bk[1],
                        !.upload_s3_key = bk[2],
                        !.upload_location = S3Scheme \o bk[1] \o Slash \o bk[2],
                        !.pc = IF Len(files) = 0 THEN "stage_upload" ELSE "stage_probe"]

InitDelta ==
    \E id \in ModelIds, dest \in Dests, present \in SUBSET (1..MaxLocal),
       large \in SUBSET (1..MaxLocal) :
       \E small \in SUBSET large :
          /\ run = [r \in Runs |-> Walking(id, dest, IF r = 1 THEN FilesOf(small)
                                                      ELSE FilesOf(large))]
          /\ s3objs = { ObjectOf(Walking(id, dest, <<>>), <<FileNames[i]>>) : i \in present }
          /\ roleExists = FALSE
          /\ rolePolicy = {}
          /\ models = {}
          /\ jobs = <<>>
          /\ slowness = MaxInProgress
          /\ dests = {dest}
          /\ staged = {}
          /\ faults = MaxFaults
          /\ calls = MaxCalls

NextDelta == \E r \in Runs : Probe(r)

SpecDelta == InitDelta /\ [][NextDelta]_vars

\* the files the walk of a caller has put on its list, as a set
Delta(r) == { run[r].files_to_upload[i] : i \in 1..Len(run[r].files_to_upload) }
\* the files of the snapshot of a caller, as a set
Local(r) == { run[r].local_files[i] : i \in 1..Len(run[r].local_files) }
\* the files of the snapshot of a caller that have no object under the working root
Absent(r) == { f \in Local(r) : ObjectOf(run[r], f) \notin s3objs }

\* C12: against a fixed remote state in which every probe answers found or
\* not found, the delta of a finished walk is exactly the local files whose
\* remote object is absent, in the order of the walk, and the delta of a
\* snapshot is contained in the delta of every snapshot that contains it.
C12_DeltaMonotonic ==
    /\ \A r \in Runs :
          /\ Delta(r) \subseteq Absent(r)
          /\ run[r].pc = "stage_upload" =>
                run[r].files_to_upload =
                   SelectSeq(run[r].local_files, LAMBDA f : ObjectOf(run[r], f) \notin s3objs)
    /\ (run[1].pc = "stage_upload" /\ run[2].pc = "stage_upload" /\ Local(1) \subseteq Local(2))
          => Delta(1) \subseteq Delta(2)

C12_Witness ==
    /\ run[1].pc = "stage_upload"
    /\ run[2].pc = "stage_upload"
    /\ Local(1) \subseteq Local(2)
    /\ Local(1) # Local(2)
    /\ Delta(1) # {}
    /\ Delta(1) # Delta(2)
    /\ Delta(2) # Local(2)


----------------------------------------------------------------------------
(* sanitize_model_id on its own: applied to a model id, then to its result *)

\* characters a model id is made of: a letter of each case, a digit, the
\* hyphen, and characters the pattern does not keep
IdChars == {"a", "Z", "7", "-", "/", "_", ".", " ", "@"}

RECURSIVE IdsOfLen(_)
IdsOfLen(n) ==
    IF n = 0 THEN { <<>> }
    ELSE { Append(x, c) : x \in IdsOfLen(n - 1), c \in IdChars }

Ids == UNION { IdsOfLen(n) : n \in 0..MaxIdLen } \cup {FooBar1}

InitSanitize ==
    /\ \E x \in Ids : run = [r \in Runs |-> [IdleRun EXCEPT !.model_id = x]]
    /\ s3objs = {}
    /\ roleExists = FALSE
    /\ rolePolicy = {}
    /\ models = {}
    /\ jobs = <<>>
    /\ slowness = MaxInProgress
    /\ dests = {}
    /\ staged = {}
    /\ faults = 0
    /\ calls = 0

\* model_name = sanitize_model_id(model_id)
Sanitize(r) ==
    /\ run[r].pc = "idle"
    /\ run' = [run EXCEPT ![r] = [@ EXCEPT !.model_name = sanitize_model_id(run[r].model_id),
                                           !.pc = "sanitized"]]
    /\ UNCHANGED <<s3objs, roleExists, rolePolicy, models, jobs, staged, faults, calls,
                   slowness, dests>>

\* the sanitiser applied to a name it has produced
Resanitize(r) ==
    /\ run[r].pc = "sanitized"
    /\ run' = [run EXCEPT ![r] = [@ EXCEPT !.result = sanitize_model_id(run[r].model_name),
                                           !.pc = "resanitized"]]
    /\ UNCHANGED <<s3objs, roleExists, rolePolicy, models, jobs, staged, faults, calls,
                   slowness, dests>>

NextSanitize == Sanitize(1) \/ Resanitize(1)

SpecSanitize == InitSanitize /\ [][NextSanitize]_vars

\* C13: the sanitised name has the length of the model id, holds only ASCII
\* letters, digits and hyphens, equals the model id with every other
\* character replaced by a hyphen, and is left as it is by the sanitiser.
C13_SanitizeShape ==
    LET x == run[1].model_id
        y == run[1].model_name
    IN  /\ run[1].pc \in {"sanitized", "resanitized"} =>
              /\ Len(y) = Len(x)
              /\ \A i \in 1..Len(y) : y[i] \in Lower \cup Upper \cup Digit \cup {"-"}
              /\ \A i \in 1..Len(x) :
                    /\ x[i] \in Lower \cup Upper \cup Digit \cup {"-"} => y[i] = x[i]
                    /\ x[i] \notin Lower \cup Upper \cup Digit \cup {"-"} => y[i] = "-"
        /\ run[1].pc = "resanitized" => run[1].result = y

C13_Witness ==
    /\ run[1].pc = "resanitized"
    /\ run[1].model_id = <<"a", "/", "_">>
    /\ run[1].model_name = <<"a", "-", "-">>
    /\ run[1].result = run[1].model_name


----------------------------------------------------------------------------
(* get_bedrock_import_role, called one call after the other *)

\* C14: with one caller, a create_role call is issued only while the role
\* is absent, and only such a call makes the role exist; a get_role that
\* finds the role returns its handle with no create_role and no
\* put_role_policy, leaving role and policy as they are; every handle a
\* call holds is the same one.
C14_RoleCreatedOnce ==
    [][ LET st == run[1]
            st2 == run'[1]
        IN  /\ st.pc = "create_role" => ~roleExists
            /\ (~roleExists /\ roleExists') => (st.pc = "create_role" /\ st2.pc = "put_policy")
            /\ (st.pc = "get_role" /\ roleExists /\ faults' = faults) =>
                  /\ st2.pc = "check_existing"
                  /\ st2.role_arn = RoleArn
                  /\ st2.iam_calls = 1
                  /\ roleExists' = roleExists
                  /\ rolePolicy' = rolePolicy
            /\ st2.role_arn \in {<<>>, RoleArn}
      ]_vars

C14_Witness ==
    /\ calls >= 2
    /\ run[1].op = "migrate"
    /\ run[1].pc = "check_existing"
    /\ run[1].iam_calls = 1
    /\ run[1].role_arn = RoleArn
    /\ roleExists


----------------------------------------------------------------------------
(* upload_to_s3 with destinations of every shape: well-formed ones, the      *)
(* empty string, the bare scheme, a slash after the scheme, and paths that   *)
(* normpath collapses                                                        *)

AnyDests ==
    { <<"b">>,
      S3Scheme \o <<"b", "/", "p">>,
      <<>>,
      S3Scheme,
      S3Scheme \o <<"/", "b">>,
      <<".">>,
      <<"b", "/", ".", ".">> }

InitDest ==
    /\ s3objs = {}
    /\ roleExists = FALSE
    /\ rolePolicy = {}
    /\ models = {}
    /\ jobs = <<>>
    /\ slowness = MaxInProgress
    /\ \E dest \in AnyDests : dests = {dest}
    /\ staged = {}
    /\ faults = 0
    /\ calls = 0
    /\ run = [r \in Runs |-> IdleRun]

NextDest ==
    \/ \E id \in ModelIds, dest \in dests : CallMigrate(1, id, dest)
    \/ Probe(1)
    \/ StageTransfer(1)

SpecDest == InitDest /\ [][NextDest]_vars

\* the bucket is one of the segments of the destination the caller gave
FromInput(bucket, dest) ==
    LET segments == SplitSlash(removeprefix(dest, S3Scheme))
    IN  \E i \in 1..Len(segments) : segments[i] = bucket

\* C15: for every destination, a probe the S3 client sends and a transfer
\* of a non-empty delta go to a bucket that is not empty and is a segment
\* of the destination the caller gave.
C15_BucketFromInput ==
    [][ \A r \in Runs :
           LET st == run[r]
               sent == \/ st.pc = "stage_probe" /\ run'[r].err # "ParamValidationError"
                       \/ st.pc = "stage_upload" /\ st.files_to_upload # <<>>
           IN  (run'[r] # st /\ sent) =>
                  /\ st.upload_s3_bucket # <<>>
                  /\ FromInput(st.upload_s3_bucket, st.s3_arg)
      ]_vars


----------------------------------------------------------------------------
(* Two callers at once: each makes one import_model_to_bedrock call, for    *)
(* the same sanitised name, and the steps of the two calls interleave; the  *)
(* program holds no lock and the remote services answer each call from the  *)
(* state they are in when the call arrives                                  *)

InitRace ==
    /\ s3objs = {}
    /\ roleExists = FALSE
    /\ rolePolicy = {}
    /\ models = {}
    /\ jobs = <<>>
    /\ slowness = MaxInProgress
    /\ \E dest \in Dests : dests = {dest}
    /\ staged = {}
    /\ faults = MaxFaults
    /\ calls = MaxCalls - 2
    /\ run = [r \in Runs |-> IdleRun]

StepRace(r) ==
    \/ \E id \in ModelIds, dest \in dests :
          /\ run[r].pc = "idle"
          /\ \A other \in Runs :
                run[other].pc # "idle" => run[other].model_name = sanitize_model_id(id)
          /\ CallMigrate(r, id, dest)
    \/ Probe(r)
    \/ StageTransfer(r)
    \/ GetRole(r)
    \/ CreateRole(r)
    \/ PutPolicy(r)
    \/ CheckExisting(r)
    \/ Submit(r)
    \/ Poll(r)

NextRace == \E r \in Runs : StepRace(r)

SpecRace == InitRace /\ [][NextRace]_vars

\* C16: nothing orders two interleaved calls. A caller whose lookup finds
\* no model of its name moves on to submit, and its submission adds a job
\* of that name, whatever jobs the other caller has in flight; a caller
\* whose get_role finds no role moves on to create_role, and issues it
\* even when the other caller has created the role in between.
C16_NoMutualExclusion ==
    [][ \A r \in Runs :
           LET st == run[r]
               st2 == run'[r]
           IN  st2 # st =>
                  /\ (st.pc = "check_existing" /\ st.model_name \notin models) =>
                        /\ st2.pc = "submit"
                        /\ st2.lookup = "ResourceNotFound"
                  /\ st.pc = "submit" =>
                        /\ st2.pc = "polling"
                        /\ jobs' = Append(jobs, [importedModelName |-> st.model_name,
                                                 roleArn |-> st.role_arn,
                                                 s3Uri |-> st.s3_uri,
                                                 by |-> r])
                  /\ (st.pc = "get_role" /\ ~roleExists) => st2.pc = "create_role"
                  /\ st.pc = "create_role" =>
                        /\ st2.iam_calls = 2
                        /\ roleExists => (st2.pc = "failed" /\ st2.err = "EntityAlreadyExists")
      ]_vars

\* both callers have passed the lookup with no model found and both have
\* submitted a job for the same model name
C16_Witness ==
    /\ calls = MaxCalls
    /\ run[1].model_name = run[2].model_name
    /\ \A r \in Runs :
          /\ run[r].lookup = "ResourceNotFound"
          /\ run[r].submissions = 1
          /\ run[r].pc = "polling"
    /\ Len(jobs) = 2
    /\ jobs[1].importedModelName = jobs[2].importedModelName
    /\ jobs[1].by # jobs[2].by

\* both callers have found the role absent and both have issued create_role
C16_RoleRace ==
    /\ calls = MaxCalls
    /\ run[1].model_name = run[2].model_name
    /\ \A r \in Runs : run[r].iam_calls >= 2
    /\ \E r \in Runs : run[r].err = "EntityAlreadyExists"


----------------------------------------------------------------------------
(* The controller on its own with its steps taken: create_bedrock_model runs *)
(* in one thread, time.sleep returns and every remote call answers or raises, *)
(* so a step that is possible is taken                                        *)

SpecPollFair == SpecPoll /\ WF_vars(NextPoll)

\* C17: a call of the controller submits at most one job, checks its status
\* at most 360 times with one sleep of 10 before each check, has waited at
\* most 3600 by then, and returns or fails.
C17_ControllerTerminates ==
    /\ [](/\ run[1].submissions <= 1
          /\ Len(jobs) <= 1
          /\ run[1].checks <= 360
          /\ run[1].sleeps = run[1].checks
          /\ run[1].wait_secs = 10 * run[1].checks
          /\ run[1].wait_secs <= 3600)
    /\ <>(run[1].pc \in {"done", "failed"})

C17_Witness ==
    /\ run[1].pc \in {"done", "failed"}
    /\ run[1].submissions = 1
    /\ run[1].checks = 360
    /\ run[1].wait_secs = 3600


----------------------------------------------------------------------------
(* One caller, destinations in two buckets, no remote call failing: the role *)
(* a call is handed may have been created by an earlier call for the other   *)
(* bucket                                                                    *)

BucketDests == { <<"b">>, <<"c">> }

InitRoles ==
    /\ s3objs = {}
    /\ roleExists = FALSE
    /\ rolePolicy = {}
    /\ models = {}
    /\ jobs = <<>>
    /\ slowness = MaxInProgress
    /\ dests = BucketDests
    /\ staged = {}
    /\ faults = MaxFaults
    /\ calls = 0
    /\ run = [r \in Runs |-> IdleRun]

NextRoles ==
    \/ \E id \in ModelIds, dest \in dests : CallMigrate(1, id, dest)
    \/ Probe(1)
    \/ StageTransfer(1)
    \/ GetRole(1)
    \/ CreateRole(1)
    \/ PutPolicy(1)
    \/ CheckExisting(1)
    \/ Submit(1)
    \/ Poll(1)

SpecRoles == InitRoles /\ [][NextRoles]_vars

\* C18: with no remote call failing, a call that holds the handle of the
\* role holds the handle of a role whose policy grants exactly the bucket
\* the call was made for, also when an earlier call created the role for
\* another bucket.
C18_PolicyGrantsBucket ==
    \A r \in Runs :
        (run[r].op = "migrate" /\ run[r].role_arn = RoleArn) =>
            /\ roleExists
            /\ rolePolicy = {run[r].role_bucket}

----------------------------------------------------------------------------
(* One caller, one destination with a prefix, model ids of which one is the  *)
(* beginning of another, no remote call failing                              *)

FrameIds == { <<"g">>, <<"g", "2">>, <<"h">> }

InitFrame ==
    /\ s3objs = {}
    /\ roleExists = FALSE
    /\ rolePolicy = {}
    /\ models = {}
    /\ jobs = <<>>
    /\ slowness = MaxInProgress
    /\ dests = { S3Scheme \o <<"b", "/", "p">> }
    /\ staged = {}
    /\ faults = MaxFaults
    /\ calls = 0
    /\ run = [r \in Runs |-> IdleRun]

NextFrame ==
    \/ \E id \in FrameIds, dest \in dests : CallMigrate(1, id, dest)
    \/ Probe(1)
    \/ StageTransfer(1)
    \/ GetRole(1)
    \/ CreateRole(1)
    \/ PutPolicy(1)
    \/ CheckExisting(1)
    \/ Submit(1)
    \/ Poll(1)
    \/ \E id \in FrameIds, dest \in dests : CallReclaim(1, dest, id)
    \/ ReclaimRole(1)
    \/ ReclaimModel(1)
    \/ ReclaimObjects(1)

SpecFrame == InitFrame /\ [][NextFrame]_vars

\* C19: a step of reclaim(destination, A) leaves the objects under the
\* working root of every other model id B of that destination as they are,
\* also when A is the beginning of B.
C19_ReclaimFrame ==
    [][ \A A \in FrameIds, B \in FrameIds, dest \in dests :
           (A # B /\ run[1].op = "reclaim" /\ run[1].model_id = A /\ run[1].s3_arg = dest)
              => LET root == s3_uri_to_bucket_and_key(LocationOf(dest, B))
                     Under(o) == o[1] = root[1] /\ StartsWith(o[2], root[2] \o Slash)
                 IN  { o \in s3objs' : Under(o) } = { o \in s3objs : Under(o) }
      ]_vars


----------------------------------------------------------------------------
(* create_bedrock_model: the lookup answered with a client error *)

====
